---- MODULE Spec2Model ----
(***************************************************************************)
(* Model of combine_content (src/contentservers/combiner.rs): the content  *)
(* assembly / plugin hook pipeline of Cynthia.                             *)
(*                                                                         *)
(* Text is modelled as a sequence of symbols.  A symbol is either one of   *)
(* the characters the codecs treat specially (quote, backslash, line       *)
(* break, tab, the JSON punctuation, the HTML-special characters) or a     *)
(* word: a run of ordinary characters that contains none of them.  String  *)
(* concatenation is \o, and two texts are equal iff their symbol sequences *)
(* are equal.  The one-letter words "n", "t", "r" are the JSON escape      *)
(* letters.  A handlebars tag is one symbol ("{{input}}", "{{{head}}}").   *)
(***************************************************************************)
EXTENDS Integers, Sequences, FiniteSets, TLC

Q == "\""
BS == "\\"
NL == "\n"
TAB == "\t"
CR == "\r"
SP == " "
\* the symbol of the grave accent character (a TLA+ string cannot hold it)
BQ == "U+0060"

\* characters that may not appear raw inside a JSON string
ControlChars == {NL, TAB, CR}

\* F applied to the value of v: v is evaluated once, as a let binding is
Bind(v, F(_)) == CHOOSE y \in {F(w) : w \in {v}} : TRUE

\* the texts ss[lo..hi] joined, by halves
RECURSIVE ConcatRange(_, _, _)
ConcatRange(ss, lo, hi) ==
    IF lo > hi THEN <<>>
    ELSE IF lo = hi THEN ss[lo]
    ELSE Bind((lo + hi) \div 2, LAMBDA mid :
              ConcatRange(ss, lo, mid) \o ConcatRange(ss, mid + 1, hi))

Concat(ss) == Bind(ss, LAMBDA t : ConcatRange(t, 1, Len(t)))

Last(s) == s[Len(s)]

----------------------------------------------------------------------------
(* serde_json::from_str::<Vec<String>> : a JSON array of strings, nothing   *)
(* else.  Err is modelled as [ok |-> FALSE].                                *)

JsonUnescape(c) ==
    CASE c = Q -> Q
      [] c = BS -> BS
      [] c = "/" -> "/"
      [] c = "n" -> NL
      [] c = "t" -> TAB
      [] c = "r" -> CR
      [] OTHER -> "?"

JsonEscapeLetters == {Q, BS, "/", "n", "t", "r"}

JsonWs == {SP, NL, TAB, CR}

\* the decoder before the first symbol.  mode: start (before "["), open
\* (after "["), elem (after ","), str (inside a string), esc (after a
\* backslash), after (after a string), end (after "]"), err
JsonStart == [mode |-> "start", str |-> <<>>, out |-> <<>>]

\* the decoder after one more symbol c
JsonStep(st, c) ==
    LET to(m) == [st EXCEPT !.mode = m] IN
    CASE st.mode = "start" ->
           IF c \in JsonWs THEN st ELSE IF c = "[" THEN to("open") ELSE to("err")
      [] st.mode = "open" ->
           IF c \in JsonWs THEN st
           ELSE IF c = Q THEN [st EXCEPT !.mode = "str", !.str = <<>>]
           ELSE IF c = "]" THEN to("end")
           ELSE to("err")
      [] st.mode = "elem" ->
           IF c \in JsonWs THEN st
           ELSE IF c = Q THEN [st EXCEPT !.mode = "str", !.str = <<>>]
           ELSE to("err")
      [] st.mode = "str" ->
           IF c = Q THEN [st EXCEPT !.mode = "after", !.out = Append(@, st.str)]
           ELSE IF c = BS THEN to("esc")
           ELSE IF c \in ControlChars THEN to("err")
           ELSE [st EXCEPT !.str = Append(@, c)]
      [] st.mode = "esc" ->
           IF c \in JsonEscapeLetters
           THEN [st EXCEPT !.mode = "str", !.str = Append(@, JsonUnescape(c))]
           ELSE to("err")
      [] st.mode = "after" ->
           IF c \in JsonWs THEN st
           ELSE IF c = "," THEN to("elem")
           ELSE IF c = "]" THEN to("end")
           ELSE to("err")
      [] st.mode = "end" -> IF c \in JsonWs THEN st ELSE to("err")
      [] OTHER -> st

\* the decoder st after the symbols s[lo..hi], by halves
RECURSIVE JsonScan(_, _, _, _)
JsonScan(st, s, lo, hi) ==
    Bind(st, LAMBDA v :
         IF lo > hi THEN v
         ELSE IF lo = hi THEN JsonStep(v, s[lo])
         ELSE Bind((lo + hi) \div 2, LAMBDA mid :
                   JsonScan(JsonScan(v, s, lo, mid), s, mid + 1, hi)))

from_str(s) ==
    Bind(s, LAMBDA t :
    Bind(JsonScan(JsonStart, t, 1, Len(t)), LAMBDA st :
         IF st.mode = "end" THEN [ok |-> TRUE, val |-> st.out]
         ELSE [ok |-> FALSE]))

----------------------------------------------------------------------------
(* handlebars::Handlebars::render_template over a string-valued context.   *)

HtmlEscapeChar(c) ==
    CASE c = Q -> <<"&", "quot;">>
      [] c = "&" -> <<"&", "amp;">>
      [] c = "<" -> <<"&", "lt;">>
      [] c = ">" -> <<"&", "gt;">>
      [] c = "=" -> <<"&", "#x3D;">>
      [] c = "'" -> <<"&", "#x27;">>
      [] c = BQ -> <<"&", "#x60;">>
      [] OTHER -> <<c>>

HtmlEscape(s) ==
    Bind(s, LAMBDA t : Concat([j \in 1..Len(t) |-> HtmlEscapeChar(t[j])]))

\* the tags the templates of the model use: [tag |-> variable, raw?]
EscapedTags == {"{{input}}", "{{content}}", "{{infoshow}}"}
RawTags == {"{{{input}}}", "{{{head}}}", "{{{content}}}", "{{{menu1}}}", "{{{menu2}}}"}
\* an opening block tag that is never closed: the template does not compile
UnclosedBlock == "{{#if"

TagVar(tag) ==
    CASE tag \in {"{{input}}", "{{{input}}}"} -> "input"
      [] tag \in {"{{content}}", "{{{content}}}"} -> "content"
      [] tag = "{{{head}}}" -> "head"
      [] tag = "{{{menu1}}}" -> "menu1"
      [] tag = "{{{menu2}}}" -> "menu2"
      [] OTHER -> "infoshow"

\* a variable the context does not bind renders as the empty string
Lookup(data, v) == IF v \in DOMAIN data THEN data[v] ELSE <<>>

\* what one symbol of the template renders to
RenderSymbol(c, data) ==
    IF c \in EscapedTags THEN HtmlEscape(Lookup(data, TagVar(c)))
    ELSE IF c \in RawTags THEN Lookup(data, TagVar(c))
    ELSE <<c>>

RenderOk(tpl, data) ==
    Bind(tpl, LAMBDA t : Concat([j \in 1..Len(t) |-> RenderSymbol(t[j], data)]))

render_template(tpl, data) ==
    IF \E j \in 1..Len(tpl) : tpl[j] = UnclosedBlock
    THEN [ok |-> FALSE]
    ELSE [ok |-> TRUE, val |-> RenderOk(tpl, data)]

\* crate::escape_json : the text as the inside of a JSON string literal
escape_json_char(c) ==
    CASE c = Q -> <<BS, Q>>
      [] c = BS -> <<BS, BS>>
      [] c = NL -> <<BS, "n">>
      [] c = TAB -> <<BS, "t">>
      [] c = CR -> <<BS, "r">>
      [] OTHER -> <<c>>

escape_json(s) ==
    Bind(s, LAMBDA t : Concat([j \in 1..Len(t) |-> escape_json_char(t[j])]))

----------------------------------------------------------------------------
(* The request, the plugins and the collaborators.                          *)

\* bounds of the model
MaxPlugins == 2
MaxRecords == 2

\* content values for which combine_content returns at once
MarkersWithoutNotFound == {<<"contentlocationerror">>, <<"contenttypeerror">>}
Markers == {<<"contentlocationerror">>, <<"404error">>, <<"contenttypeerror">>}

BodySentinel == "kamkdxcvjgCVJGVvdbvcgcvgdvd"
OutputSentinel == "kamdlnjnjnsjkanj"

\* Option<..>::None / Some(hook) for the three runners of a plugin
NoHook == [some |-> FALSE, type_field |-> "", execute |-> <<>>]
Hook(kind, tpl) == [some |-> TRUE, type_field |-> kind, execute |-> tpl]

\* hook templates: one that renders to a command list holding the input,
\* one that does not compile, one that renders to text that is not JSON
TplInput == <<"[", Q, "append.js", Q, ",", SP, Q, "{{input}}", Q, "]">>
TplBad == <<"[", Q, "append.js", Q, ",", SP, UnclosedBlock>>
TplNotJson == <<"append.js", SP, "{{input}}">>
\* one whose command list holds both stages' sentinel tokens as literals
TplSentinels == <<"[", Q, BodySentinel, Q, ",", Q, OutputSentinel, Q, "]">>

Plugin(n, b, h, o) ==
    [name |-> n, modify_body_html |-> b, modify_head_html |-> h,
     modify_output_html |-> o]

PluginPool ==
    { Plugin("B", Hook("js", TplInput), NoHook, Hook("js", TplInput)),
      Plugin("C", Hook("py", TplInput), Hook("js", TplInput), NoHook),
      Plugin("D", NoHook, Hook("py", TplNotJson), Hook("py", TplInput)),
      Plugin("E", Hook("js", TplBad), Hook("js", TplBad), NoHook),
      Plugin("F", NoHook, NoHook, Hook("js", TplBad)),
      Plugin("G", Hook("py", TplNotJson), NoHook, NoHook),
      Plugin("H", Hook("js", TplSentinels), Hook("js", TplSentinels),
             Hook("js", TplSentinels)) }

SeqsUpTo(S, n) == UNION {[1..m -> S] : m \in 0..n}

\* the installed plugins, each listed once
PluginLists ==
    {l \in SeqsUpTo(PluginPool, MaxPlugins) :
        \A a, b \in 1..Len(l) : l[a] = l[b] => a = b}

\* the request contents of the model: the three error markers, plain text,
\* text with double quotes, text with a backslash
Contents ==
    {<<"contentlocationerror">>, <<"404error">>, <<"contenttypeerror">>,
     <<"hi">>, <<"say", Q, "hi", Q>>, <<"a", BS, "n", "b">>}

PageIds == {"p1", "p2"}

Menus == [menu1 |-> <<"m1">>, menu2 |-> <<"m2">>]

\* CynthiaPostData, restricted to the fields combine_content looks at
NoMode == [some |-> FALSE, val |-> ""]
SomeMode(m) == [some |-> TRUE, val |-> m]
Record(id, title, kind, mode) ==
    [id |-> id, title |-> title, kind |-> kind, mode |-> mode]
NoPost == [some |-> FALSE, rec |-> Record("", "", "", NoMode)]

Records ==
    { Record("p1", "T", "post", NoMode),
      Record("p1", "U", "page", SomeMode("dark")),
      Record("p2", "V", "note", NoMode) }

\* what read_published_jsonc may return
Stores == SeqsUpTo(Records, MaxRecords)

\* crate::load_mode(name).1
load_mode(name) ==
    IF name = "dark"
    THEN [sitename |-> "Dark", stylefile |-> "d.css",
          handlebar |-> [post |-> "dpost", page |-> "dpage"]]
    ELSE [sitename |-> "Site", stylefile |-> "s.css",
          handlebar |-> [post |-> "post", page |-> "page"]]

\* what a file read may return: Err, or Ok(text)
Err == [ok |-> FALSE, val |-> <<>>]
Ok(t) == [ok |-> TRUE, val |-> t]
StylesheetReads == {Err, Ok(<<"body{}">>)}
ClientJsReads == {Err, Ok(<<"init();">>)}
PageTemplate ==
    <<"<", "div", ">", "{{{head}}}", "{{{menu1}}}", "{{{menu2}}}",
      "{{{content}}}", "{{infoshow}}", "<", "/div", ">">>
TemplateReads == {Err, Ok(PageTemplate), Ok(<<"<", "div", ">", UnclosedBlock>>)}

\* jsr::noderunner(cmd, cwd): the standard output of the plugin's script
RunnerOutputs(cmd, name) ==
    {<<"out">>} \cup (IF cmd = <<>> THEN {} ELSE {Last(cmd) \o <<name>>})

----------------------------------------------------------------------------
(* The texts combine_content builds.                                        *)

\* format!("[ \"returndirect\", \"f{}\" ]", text)
FallbackJson(text) ==
    <<"[", SP, Q, "returndirect", Q, ",", SP, Q, "f">> \o text \o <<Q, SP, "]">>

SerdeString(w) == <<Q, w, Q>>

\* serde_json::to_string(&post)
to_string(rec) ==
    <<"{">> \o SerdeString("id") \o <<":">> \o SerdeString(rec.id)
    \o <<",">> \o SerdeString("title") \o <<":">> \o SerdeString(rec.title)
    \o <<",">> \o SerdeString("type") \o <<":">> \o SerdeString(rec.kind)
    \o <<",">> \o SerdeString("mode") \o <<":">>
    \o (IF rec.mode.some THEN SerdeString(rec.mode.val) ELSE <<"null">>)
    \o <<"}">>

InitialHead(css, title, sitename) ==
    <<NL, "            ", "<", "style", ">", NL, TAB>> \o css
    \o <<NL, TAB, "<", "/style", ">", NL, TAB,
         "<", "script src", "=", Q, "/jquery/jquery.min.js", Q, ">",
         "<", "/script", ">", NL, TAB,
         "<", "title", ">", title, SP, "&", "ndash;", SP, sitename,
         "<", "/title", ">", NL, TAB>>

MetaTag(json) ==
    <<"<", "script", ">", NL, TAB, TAB, "const pagemetainfo ", "=",
      " JSON.parse(", BS, BQ>> \o json
    \o <<BS, BQ, ");", NL, TAB, "<", "/script", ">">>

Document(rendered, js) ==
    <<"<", "html", ">", NL>> \o rendered
    \o <<NL, NL, NL, NL, "<", "script", ">">> \o js
    \o <<"<", "/script", ">", NL, NL, "<", "/html", ">">>

\* env!("CARGO_PKG_VERSION")
Version == "CARGO_PKG_VERSION"

Banner ==
    <<"<", "!--", NL, NL, "Generated and hosted through Cynthia v", Version,
      ", by Strawmelonjuice.", NL, "Also see:", TAB, "<",
      "https://github.com/strawmelonjuice/CynthiaCMS-JS/blob/main/README.MD",
      ">", NL, NL, "--", ">", NL, NL, NL, NL, CR>>

PluginDir(name) == <<"./plugins/", name, "/">>

----------------------------------------------------------------------------
(* The state of one call of combine_content.                                *)

VARIABLES
    pgid, content, menus, plugins,   \* the arguments
    pc,                \* where the call is
    i,                 \* index of the plugin the current loop is at
    contents,          \* let mut contents
    post,              \* the record the scan stopped at
    mode_to_load, pagemetainfojson, currentmode,
    stylesheet, clientjs, handlebarfile, source,
    head,              \* let mut head
    k,                 \* let mut k
    inflight,          \* the Script Runner invocation that has not returned
    result,            \* the returned String
    trace              \* what the call did to its collaborators, in order

args == <<pgid, content, menus, plugins>>
locals == <<contents, post, mode_to_load, pagemetainfojson, currentmode,
            stylesheet, clientjs, handlebarfile, source, head, k>>
vars == <<args, pc, i, locals, inflight, result, trace>>

----------------------------------------------------------------------------
(* The command protocol codec of each stage: render, decode, substitute.    *)

Substitute(cmds, sentinel, text) ==
    [j \in 1..Len(cmds) |-> IF cmds[j] = <<sentinel>> THEN text ELSE cmds[j]]

\* the substitution puts the request's content, not the current one
BodyCmdOriginalContent(p, text) ==
    Bind(render_template(p.execute, [input |-> <<BodySentinel>>]), LAMBDA r :
    Bind(from_str(IF r.ok THEN r.val ELSE FallbackJson(text)), LAMBDA d :
    Bind(IF d.ok THEN d.val ELSE <<>>, LAMBDA cmds :
         [rendered |-> r.ok, ok |-> d.ok, parsed |-> d.ok, cmds |-> cmds,
          cmd |-> Substitute(cmds, BodySentinel, content)])))

\* body hook: lines 19-39.  ok = FALSE is the panic of unwrap() on line 31
BodyCmd(p, text) ==
    Bind(render_template(p.execute, [input |-> <<BodySentinel>>]), LAMBDA r :
    Bind(from_str(IF r.ok THEN r.val ELSE FallbackJson(text)), LAMBDA d :
    Bind(IF d.ok THEN d.val ELSE <<>>, LAMBDA cmds :
         [rendered |-> r.ok, ok |-> d.ok, parsed |-> d.ok, cmds |-> cmds,
          cmd |-> Substitute(cmds, BodySentinel, text)])))

\* the decode fallback carries the head as it is, not escaped
HeadCmdRawFallback(p, text) ==
    Bind(render_template(p.execute, [input |-> escape_json(text)]), LAMBDA r :
    Bind(from_str(IF r.ok THEN r.val ELSE FallbackJson(text)), LAMBDA d :
    Bind(IF d.ok THEN d.val ELSE <<<<"returndirect">>, text>>, LAMBDA cmds :
         [rendered |-> r.ok, ok |-> TRUE, parsed |-> d.ok, cmds |-> cmds,
          cmd |-> cmds])))

\* head hook: lines 89-107.  Never panics: the decode has a fallback
HeadCmd(p, text) ==
    Bind(render_template(p.execute, [input |-> escape_json(text)]), LAMBDA r :
    Bind(from_str(IF r.ok THEN r.val ELSE FallbackJson(text)), LAMBDA d :
    Bind(IF d.ok THEN d.val ELSE <<<<"returndirect">>, escape_json(text)>>, LAMBDA cmds :
         [rendered |-> r.ok, ok |-> TRUE, parsed |-> d.ok, cmds |-> cmds,
          cmd |-> cmds])))

\* the output stage substitutes the body stage's sentinel
OutputCmdBodySentinel(p, text) ==
    Bind(render_template(p.execute, [input |-> <<OutputSentinel>>]), LAMBDA r :
    Bind(from_str(IF r.ok THEN r.val ELSE FallbackJson(text)), LAMBDA d :
    Bind(IF d.ok THEN d.val ELSE <<>>, LAMBDA cmds :
         [rendered |-> r.ok, ok |-> d.ok, parsed |-> d.ok, cmds |-> cmds,
          cmd |-> Substitute(cmds, BodySentinel, text)])))

\* output hook: lines 143-164.  ok = FALSE is the panic of unwrap() on line 155
OutputCmd(p, text) ==
    Bind(render_template(p.execute, [input |-> <<OutputSentinel>>]), LAMBDA r :
    Bind(from_str(IF r.ok THEN r.val ELSE FallbackJson(text)), LAMBDA d :
    Bind(IF d.ok THEN d.val ELSE <<>>, LAMBDA cmds :
         [rendered |-> r.ok, ok |-> d.ok, parsed |-> d.ok, cmds |-> cmds,
          cmd |-> Substitute(cmds, OutputSentinel, text)])))

----------------------------------------------------------------------------
(* One call of combine_content as a state machine.                          *)

NoCall == [some |-> FALSE, cmd |-> <<>>, name |-> ""]

Init ==
    /\ pgid \in PageIds
    /\ content \in Contents
    /\ menus = Menus
    /\ plugins \in PluginLists
    /\ pc = "start"
    /\ i = 1
    /\ contents = <<>>
    /\ post = NoPost
    /\ mode_to_load = ""
    /\ pagemetainfojson = <<>>
    /\ currentmode = load_mode("default")
    /\ stylesheet = <<>>
    /\ clientjs = <<>>
    /\ handlebarfile = <<>>
    /\ source = <<>>
    /\ head = <<>>
    /\ k = <<>>
    /\ inflight = NoCall
    /\ result = <<>>
    /\ trace = <<>>

Emit(e) == trace' = Append(trace, e)

\* unwrap() / expect() on an Err: the call unwinds and returns nothing
Panic(line, stage, rendered) ==
    /\ pc' = "panic"
    /\ Emit([op |-> "panic", stage |-> stage, idx |-> i, line |-> line,
             rendered |-> rendered])

IsJsAnyKind(p) == TRUE
\* p.type_field == String::from("js")
IsJs(p) == p.type_field = "js"

RunEvent(stage, p, c, text) ==
    [op |-> "run", stage |-> stage, idx |-> i, plugin |-> plugins[i].name,
     kind |-> p.type_field, rendered |-> c.rendered, parsed |-> c.parsed,
     cmds |-> c.cmds, cur |-> text, cmd |-> c.cmd,
     cwd |-> PluginDir(plugins[i].name)]

SkipEvent(stage, p, c, text) ==
    [op |-> "skip", stage |-> stage, idx |-> i, plugin |-> plugins[i].name,
     kind |-> p.type_field, rendered |-> c.rendered, parsed |-> c.parsed,
     cmds |-> c.cmds, cur |-> text]

\* lines 11-15
Bypass ==
    /\ pc = "start"
    /\ IF content \in Markers
       THEN /\ result' = content
            /\ pc' = "done"
            /\ UNCHANGED contents
       ELSE /\ contents' = content
            /\ pc' = "body"
            /\ UNCHANGED result
    /\ UNCHANGED <<args, i, post, mode_to_load, pagemetainfojson, currentmode,
                   stylesheet, clientjs, handlebarfile, source, head, k,
                   inflight, trace>>

\* one iteration of the loop of lines 16-48, up to the call on line 41
BodyHook ==
    /\ pc = "body" /\ i <= Len(plugins) /\ ~inflight.some
    /\ LET p == plugins[i].modify_body_html IN
       \E c \in {BodyCmd(p, contents)} :
       IF ~p.some THEN
            /\ i' = i + 1
            /\ UNCHANGED <<pc, inflight, trace>>
       ELSE IF ~c.ok THEN
            /\ Panic(31, "body", c.rendered)
            /\ UNCHANGED <<i, inflight>>
       ELSE IF IsJs(p) THEN
            /\ inflight' = [some |-> TRUE, cmd |-> c.cmd, name |-> plugins[i].name]
            /\ Emit(RunEvent("body", p, c, contents))
            /\ UNCHANGED <<pc, i>>
       ELSE /\ Emit(SkipEvent("body", p, c, contents))
            /\ i' = i + 1
            /\ UNCHANGED <<pc, inflight>>
    /\ UNCHANGED <<args, locals, result>>

\* noderunner returns; the assignment of line 41
BodyReturn ==
    /\ pc = "body" /\ inflight.some
    /\ \E out \in RunnerOutputs(inflight.cmd, inflight.name) :
        /\ contents' = out
        /\ Emit([op |-> "ret", stage |-> "body", idx |-> i, out |-> out])
    /\ i' = i + 1
    /\ inflight' = NoCall
    /\ UNCHANGED <<args, pc, post, mode_to_load, pagemetainfojson, currentmode,
                   stylesheet, clientjs, handlebarfile, source, head, k, result>>

MatchesAnyRecord(store) == 1..Len(store)
Matches(store) == {j \in 1..Len(store) : store[j].id = pgid}
FirstMatch(store) ==
    store[CHOOSE j \in Matches(store) : \A m \in Matches(store) : j <= m]

\* what the call goes on to use of the records it read: the record the scan
\* stopped at, or every record when it stopped at none
ScannedUse(store) ==
    IF Matches(store) # {} THEN <<FirstMatch(store)>> ELSE store

\* lines 49-51 and 177-179: read the records, stop at the first with the id
MetadataLookup ==
    /\ pc = "body" /\ i > Len(plugins) /\ ~inflight.some
    /\ \E published_jsonc \in Stores :
        /\ IF Matches(published_jsonc) # {}
           THEN /\ post' = [some |-> TRUE, rec |-> FirstMatch(published_jsonc)]
                /\ pc' = "mode"
                /\ UNCHANGED result
           ELSE /\ result' = contents
                /\ pc' = "done"
                /\ UNCHANGED post
        /\ Emit([op |-> "read_published_jsonc", stage |-> "lookup", idx |-> 0,
                 store |-> ScannedUse(published_jsonc)])
    /\ UNCHANGED <<args, i, contents, mode_to_load, pagemetainfojson,
                   currentmode, stylesheet, clientjs, handlebarfile, source,
                   head, k, inflight>>

\* the record is serialized before the mode default is applied
ModeResolutionSerializesFirst ==
    /\ pc = "mode"
    /\ LET m == IF post.rec.mode.some THEN post.rec.mode.val ELSE "default"
           rec == [post.rec EXCEPT !.mode = SomeMode(m)] IN
        /\ mode_to_load' = m
        /\ post' = [post EXCEPT !.rec = rec]
        /\ pagemetainfojson' = to_string(post.rec)
        /\ currentmode' = load_mode(m)
        /\ Emit([op |-> "load_mode", stage |-> "mode", idx |-> 0, name |-> m])
    /\ pc' = "stylesheet"
    /\ UNCHANGED <<args, i, contents, stylesheet, clientjs, handlebarfile,
                   source, head, k, inflight, result>>

\* lines 52-57
ModeResolution ==
    /\ pc = "mode"
    /\ LET m == IF post.rec.mode.some THEN post.rec.mode.val ELSE "default"
           rec == [post.rec EXCEPT !.mode = SomeMode(m)] IN
        /\ mode_to_load' = m
        /\ post' = [post EXCEPT !.rec = rec]
        /\ pagemetainfojson' = to_string(rec)
        /\ currentmode' = load_mode(m)
        /\ Emit([op |-> "load_mode", stage |-> "mode", idx |-> 0, name |-> m])
    /\ pc' = "stylesheet"
    /\ UNCHANGED <<args, i, contents, stylesheet, clientjs, handlebarfile,
                   source, head, k, inflight, result>>

\* a stylesheet that cannot be read fails the call
ReadStylesheetFatal ==
    /\ pc = "stylesheet"
    /\ \E r \in StylesheetReads :
        IF r.ok
        THEN /\ stylesheet' = r.val
             /\ pc' = "clientjs"
             /\ Emit([op |-> "read_file", stage |-> "stylesheet", idx |-> 0,
                      ok |-> TRUE,
                      path |-> <<"./cynthiaFiles/styles/", currentmode.stylefile>>])
        ELSE /\ Panic(61, "stylesheet", TRUE)
             /\ UNCHANGED stylesheet
    /\ UNCHANGED <<args, i, contents, post, mode_to_load, pagemetainfojson,
                   currentmode, clientjs, handlebarfile, source, head, k,
                   inflight, result>>

\* lines 58-61
ReadStylesheet ==
    /\ pc = "stylesheet"
    /\ \E r \in StylesheetReads :
        /\ stylesheet' = IF r.ok THEN r.val ELSE <<>>
        /\ Emit([op |-> "read_file", stage |-> "stylesheet", idx |-> 0,
                 ok |-> r.ok,
                 path |-> <<"./cynthiaFiles/styles/", currentmode.stylefile>>])
    /\ pc' = "clientjs"
    /\ UNCHANGED <<args, i, contents, post, mode_to_load, pagemetainfojson,
                   currentmode, clientjs, handlebarfile, source, head, k,
                   inflight, result>>

\* lines 62-63
ReadClientJs ==
    /\ pc = "clientjs"
    /\ \E r \in ClientJsReads :
        IF r.ok
        THEN /\ clientjs' = r.val
             /\ pc' = "template"
             /\ Emit([op |-> "read_file", stage |-> "clientjs", idx |-> 0,
                      ok |-> TRUE, path |-> <<"./src/client.js">>])
        ELSE /\ Panic(63, "clientjs", TRUE)
             /\ UNCHANGED clientjs
    /\ UNCHANGED <<args, i, contents, post, mode_to_load, pagemetainfojson,
                   currentmode, stylesheet, handlebarfile, source, head, k,
                   inflight, result>>

\* the page template is chosen only for the kind "page"
ReadTemplatePageKindOnly ==
    /\ pc = "template"
    /\ LET f == <<"./cynthiaFiles/templates/",
                  IF post.rec.kind = "page" THEN currentmode.handlebar.page
                  ELSE currentmode.handlebar.post,
                  ".handlebars">> IN
        /\ handlebarfile' = f
        /\ \E r \in TemplateReads :
            IF r.ok
            THEN /\ source' = r.val
                 /\ pc' = "headinit"
                 /\ Emit([op |-> "read_file", stage |-> "template", idx |-> 0,
                          ok |-> TRUE, path |-> f])
            ELSE /\ Panic(74, "template", TRUE)
                 /\ UNCHANGED source
    /\ UNCHANGED <<args, i, contents, post, mode_to_load, pagemetainfojson,
                   currentmode, stylesheet, clientjs, head, k, inflight, result>>

\* lines 64-74
ReadTemplate ==
    /\ pc = "template"
    /\ LET f == <<"./cynthiaFiles/templates/",
                  IF post.rec.kind = "post" THEN currentmode.handlebar.post
                  ELSE currentmode.handlebar.page,
                  ".handlebars">> IN
        /\ handlebarfile' = f
        /\ \E r \in TemplateReads :
            IF r.ok
            THEN /\ source' = r.val
                 /\ pc' = "headinit"
                 /\ Emit([op |-> "read_file", stage |-> "template", idx |-> 0,
                          ok |-> TRUE, path |-> f])
            ELSE /\ Panic(74, "template", TRUE)
                 /\ UNCHANGED source
    /\ UNCHANGED <<args, i, contents, post, mode_to_load, pagemetainfojson,
                   currentmode, stylesheet, clientjs, head, k, inflight, result>>

\* the metadata tag is put into the head before the head hooks run
HeadConstructionWithMetaTag ==
    /\ pc = "headinit"
    /\ head' = InitialHead(stylesheet, post.rec.title, currentmode.sitename)
                  \o MetaTag(pagemetainfojson)
    /\ pc' = "head"
    /\ i' = 1
    /\ UNCHANGED <<args, contents, post, mode_to_load, pagemetainfojson,
                   currentmode, stylesheet, clientjs, handlebarfile, source, k,
                   inflight, result, trace>>

\* lines 75-85
HeadConstruction ==
    /\ pc = "headinit"
    /\ head' = InitialHead(stylesheet, post.rec.title, currentmode.sitename)
    /\ pc' = "head"
    /\ i' = 1
    /\ UNCHANGED <<args, contents, post, mode_to_load, pagemetainfojson,
                   currentmode, stylesheet, clientjs, handlebarfile, source, k,
                   inflight, result, trace>>

\* one iteration of the loop of lines 86-116, up to the call on line 109
HeadHook ==
    /\ pc = "head" /\ i <= Len(plugins) /\ ~inflight.some
    /\ LET p == plugins[i].modify_head_html IN
       \E c \in {HeadCmd(p, head)} :
       IF ~p.some THEN
            /\ i' = i + 1
            /\ UNCHANGED <<inflight, trace>>
       ELSE IF IsJs(p) THEN
            /\ inflight' = [some |-> TRUE, cmd |-> c.cmd, name |-> plugins[i].name]
            /\ Emit(RunEvent("head", p, c, head))
            /\ UNCHANGED i
       ELSE /\ Emit(SkipEvent("head", p, c, head))
            /\ i' = i + 1
            /\ UNCHANGED inflight
    /\ UNCHANGED <<args, pc, locals, result>>

\* the head hook loop starts over after an invocation
HeadReturnRestart ==
    /\ pc = "head" /\ inflight.some
    /\ \E out \in RunnerOutputs(inflight.cmd, inflight.name) :
        /\ head' = out
        /\ Emit([op |-> "ret", stage |-> "head", idx |-> i, out |-> out])
    /\ i' = 1
    /\ inflight' = NoCall
    /\ UNCHANGED <<args, pc, contents, post, mode_to_load, pagemetainfojson,
                   currentmode, stylesheet, clientjs, handlebarfile, source, k,
                   result>>

\* noderunner returns; the assignment of line 109
HeadReturn ==
    /\ pc = "head" /\ inflight.some
    /\ \E out \in RunnerOutputs(inflight.cmd, inflight.name) :
        /\ head' = out
        /\ Emit([op |-> "ret", stage |-> "head", idx |-> i, out |-> out])
    /\ i' = i + 1
    /\ inflight' = NoCall
    /\ UNCHANGED <<args, pc, contents, post, mode_to_load, pagemetainfojson,
                   currentmode, stylesheet, clientjs, handlebarfile, source, k,
                   result>>

\* the template file is read only now, after the head hooks
MetadataInjectionThenTemplateRead ==
    /\ pc = "head" /\ i > Len(plugins) /\ ~inflight.some
    /\ head' = head \o MetaTag(pagemetainfojson)
    /\ pc' = "template"
    /\ UNCHANGED <<args, i, contents, post, mode_to_load, pagemetainfojson,
                   currentmode, stylesheet, clientjs, handlebarfile, source, k,
                   inflight, result, trace>>

\* lines 117-125
MetadataInjection ==
    /\ pc = "head" /\ i > Len(plugins) /\ ~inflight.some
    /\ head' = head \o MetaTag(pagemetainfojson)
    /\ pc' = "render"
    /\ UNCHANGED <<args, i, contents, post, mode_to_load, pagemetainfojson,
                   currentmode, stylesheet, clientjs, handlebarfile, source, k,
                   inflight, result, trace>>

PageVarsMenusSwapped(h, body, m) ==
    [head |-> h, content |-> body, menu1 |-> m.menu2, menu2 |-> m.menu1,
     infoshow |-> <<>>]
\* CynthiaPageVars of lines 126-132
PageVars(h, body, m) ==
    [head |-> h, content |-> body, menu1 |-> m.menu1, menu2 |-> m.menu2,
     infoshow |-> <<>>]

\* the banner is put on the document before the output hooks run
RenderAndAssembleWithBanner ==
    /\ pc = "render"
    /\ \E r \in {render_template(source, PageVars(head, contents, menus))} :
       IF r.ok
       THEN /\ k' = Banner \o Document(r.val, clientjs)
            /\ pc' = "output"
            /\ i' = 1
            /\ UNCHANGED trace
       ELSE /\ Panic(137, "render", TRUE)
            /\ UNCHANGED <<k, i>>
    /\ UNCHANGED <<args, contents, post, mode_to_load, pagemetainfojson,
                   currentmode, stylesheet, clientjs, handlebarfile, source,
                   head, inflight, result>>

\* lines 126-139
RenderAndAssemble ==
    /\ pc = "render"
    /\ \E r \in {render_template(source, PageVars(head, contents, menus))} :
       IF r.ok
       THEN /\ k' = Document(r.val, clientjs)
            /\ pc' = "output"
            /\ i' = 1
            /\ UNCHANGED trace
       ELSE /\ Panic(137, "render", TRUE)
            /\ UNCHANGED <<k, i>>
    /\ UNCHANGED <<args, contents, post, mode_to_load, pagemetainfojson,
                   currentmode, stylesheet, clientjs, handlebarfile, source,
                   head, inflight, result>>

\* the output hook of the first plugin is never handed to the Script Runner
OutputHookSkipsFirst ==
    /\ pc = "output" /\ i <= Len(plugins) /\ ~inflight.some
    /\ LET p == plugins[i].modify_output_html IN
       \E c \in {OutputCmd(p, k)} :
       IF ~p.some THEN
            /\ i' = i + 1
            /\ UNCHANGED <<pc, inflight, trace>>
       ELSE IF ~c.ok THEN
            /\ Panic(155, "output", c.rendered)
            /\ UNCHANGED <<i, inflight>>
       ELSE IF IsJs(p) /\ i > 1 THEN
            /\ inflight' = [some |-> TRUE, cmd |-> c.cmd, name |-> plugins[i].name]
            /\ Emit(RunEvent("output", p, c, k))
            /\ UNCHANGED <<pc, i>>
       ELSE /\ Emit(SkipEvent("output", p, c, k))
            /\ i' = i + 1
            /\ UNCHANGED <<pc, inflight>>
    /\ UNCHANGED <<args, locals, result>>

\* one iteration of the loop of lines 140-174, up to the call on line 167
OutputHook ==
    /\ pc = "output" /\ i <= Len(plugins) /\ ~inflight.some
    /\ LET p == plugins[i].modify_output_html IN
       \E c \in {OutputCmd(p, k)} :
       IF ~p.some THEN
            /\ i' = i + 1
            /\ UNCHANGED <<pc, inflight, trace>>
       ELSE IF ~c.ok THEN
            /\ Panic(155, "output", c.rendered)
            /\ UNCHANGED <<i, inflight>>
       ELSE IF IsJs(p) THEN
            /\ inflight' = [some |-> TRUE, cmd |-> c.cmd, name |-> plugins[i].name]
            /\ Emit(RunEvent("output", p, c, k))
            /\ UNCHANGED <<pc, i>>
       ELSE /\ Emit(SkipEvent("output", p, c, k))
            /\ i' = i + 1
            /\ UNCHANGED <<pc, inflight>>
    /\ UNCHANGED <<args, locals, result>>

\* the returned string is appended to the document instead of replacing it
OutputReturnMerging ==
    /\ pc = "output" /\ inflight.some
    /\ \E out \in RunnerOutputs(inflight.cmd, inflight.name) :
        /\ k' = k \o out
        /\ Emit([op |-> "ret", stage |-> "output", idx |-> i, out |-> out])
    /\ i' = i + 1
    /\ inflight' = NoCall
    /\ UNCHANGED <<args, pc, contents, post, mode_to_load, pagemetainfojson,
                   currentmode, stylesheet, clientjs, handlebarfile, source,
                   head, result>>

\* noderunner returns; the assignment of line 167
OutputReturn ==
    /\ pc = "output" /\ inflight.some
    /\ \E out \in RunnerOutputs(inflight.cmd, inflight.name) :
        /\ k' = out
        /\ Emit([op |-> "ret", stage |-> "output", idx |-> i, out |-> out])
    /\ i' = i + 1
    /\ inflight' = NoCall
    /\ UNCHANGED <<args, pc, contents, post, mode_to_load, pagemetainfojson,
                   currentmode, stylesheet, clientjs, handlebarfile, source,
                   head, result>>

\* line 175
ReturnPage ==
    /\ pc = "output" /\ i > Len(plugins) /\ ~inflight.some
    /\ result' = Banner \o k
    /\ pc' = "done"
    /\ UNCHANGED <<args, i, locals, inflight, trace>>

Next ==
    \/ Bypass
    \/ BodyHook
    \/ BodyReturn
    \/ MetadataLookup
    \/ ModeResolution
    \/ ReadStylesheet
    \/ ReadClientJs
    \/ ReadTemplate
    \/ HeadConstruction
    \/ HeadHook
    \/ HeadReturn
    \/ MetadataInjection
    \/ RenderAndAssemble
    \/ OutputHook
    \/ OutputReturn
    \/ ReturnPage

Spec == Init /\ [][Next]_vars

\* the call keeps executing and every Script Runner invocation returns
LiveContents == {<<"404error">>, <<"hi">>}
LiveInit == Init /\ content \in LiveContents
LiveSpec == LiveInit /\ [][Next]_vars /\ WF_vars(Next)

TypeOK ==
    /\ pc \in {"start", "body", "mode", "stylesheet", "clientjs", "template",
               "headinit", "head", "render", "output", "done", "panic"}
    /\ i \in 1..(Len(plugins) + 1)

----------------------------------------------------------------------------
(* Reading the trace.                                                       *)

Max(S) == CHOOSE x \in S : \A y \in S : y <= x

HookStages == {"body", "head", "output"}
HookEvents(stage) ==
    {j \in 1..Len(trace) : trace[j].op \in {"run", "skip"} /\ trace[j].stage = stage}
Runs == {j \in 1..Len(trace) : trace[j].op = "run"}
Rets(stage) ==
    {j \in 1..Len(trace) : trace[j].op = "ret" /\ trace[j].stage = stage}
RetsBefore(n, stage) == {j \in Rets(stage) : j < n}

\* the value of the stage's text variable
Current(stage) ==
    CASE stage = "body" -> contents
      [] stage = "head" -> head
      [] OTHER -> k

HookAt(stage, n) ==
    CASE stage = "body" -> plugins[n].modify_body_html
      [] stage = "head" -> plugins[n].modify_head_html
      [] OTHER -> plugins[n].modify_output_html

Panicked == pc = "panic"
PanicEvent == trace[Len(trace)]

----------------------------------------------------------------------------
(* The properties.                                                          *)

\* C1: within a stage the plugins' hooks are reached in list order and one
\* at a time: an invocation starts only after the previous one of the stage
\* has returned; the returned string is the whole current text of the stage
\* and is the text the next hook of that stage is given.
SequentialHooks ==
    /\ \A st \in HookStages : \A a, b \in HookEvents(st) :
          a < b =>
            /\ trace[a].idx < trace[b].idx
            /\ trace[a].op = "run" =>
                 \E r \in Rets(st) : a < r /\ r < b /\ trace[r].idx = trace[a].idx
    /\ \A st \in HookStages : \A b \in HookEvents(st) :
          /\ trace[b].plugin = plugins[trace[b].idx].name
          /\ RetsBefore(b, st) # {} =>
               trace[b].cur = trace[Max(RetsBefore(b, st))].out
    /\ \A st \in HookStages :
          (pc = st /\ Len(trace) > 0 /\ trace[Len(trace)].op = "ret"
             /\ trace[Len(trace)].stage = st)
            => Current(st) = trace[Len(trace)].out
    /\ inflight.some =>
          /\ Len(trace) > 0 /\ trace[Len(trace)].op = "run"
          /\ inflight.cmd = trace[Len(trace)].cmd

\* two plugins' js output hooks have both run and the page was returned
SequentialHooksWitness ==
    /\ pc = "done"
    /\ Len(plugins) = 2
    /\ Cardinality(Rets("output")) = 2

\* C2: a request whose content is one of the three error markers returns
\* that content in its first step and touches no collaborator.
BypassIsTerminal ==
    content \in {<<"contentlocationerror">>, <<"404error">>, <<"contenttypeerror">>}
      => /\ pc \in {"start", "done"}
         /\ trace = <<>>
         /\ ~inflight.some
         /\ pc = "done" => result = content

BypassIsTerminalWitness ==
    /\ content = <<"404error">>
    /\ pc = "done"
    /\ plugins # <<>>

StoreReads == {j \in 1..Len(trace) : trace[j].op = "read_published_jsonc"}
IdAbsent(store) == \A j \in 1..Len(store) : store[j].id # pgid

\* C3: when the records read hold none with the page id, the call returns
\* the text the body hooks left, and reads no mode, stylesheet or template.
NotFoundReturnsBody ==
    \A n \in StoreReads :
        IdAbsent(trace[n].store) =>
          /\ pc = "done"
          /\ n = Len(trace)
          /\ result = (IF Rets("body") = {} THEN content
                       ELSE trace[Max(Rets("body"))].out)
          /\ \A j \in 1..Len(trace) :
                /\ trace[j].op \notin {"load_mode", "read_file", "panic"}
                /\ trace[j].stage \in {"body", "lookup"}

NotFoundReturnsBodyWitness ==
    /\ pc = "done"
    /\ \E n \in StoreReads : IdAbsent(trace[n].store) /\ trace[n].store # <<>>
    /\ Rets("body") # {}
    /\ result # content

SentinelOf(stage) == IF stage = "body" THEN BodySentinel ELSE OutputSentinel

\* C4: the argument vector of a body or output hook is the decoded command
\* list with each element equal to the stage's sentinel replaced by the
\* text current at that hook, every other element unchanged.
ArgumentVector ==
    \A n \in Runs :
        trace[n].stage \in {"body", "output"} =>
          LET e == trace[n]
              before == RetsBefore(n, e.stage) IN
          /\ Len(e.cmd) = Len(e.cmds)
          /\ \A j \in 1..Len(e.cmds) :
                e.cmd[j] = IF e.cmds[j] = <<SentinelOf(e.stage)>> THEN e.cur
                           ELSE e.cmds[j]
          /\ before # {} => e.cur = trace[Max(before)].out
          /\ (before = {} /\ e.stage = "body") => e.cur = content

\* a body hook ran on text an earlier body hook had changed
ArgumentVectorWitness ==
    \E n \in Runs :
        /\ trace[n].stage = "body"
        /\ RetsBefore(n, "body") # {}
        /\ trace[n].cur # content
        /\ \E j \in 1..Len(trace[n].cmds) : trace[n].cmds[j] = <<BodySentinel>>

AtNonJsHook ==
    /\ pc \in HookStages
    /\ i <= Len(plugins)
    /\ ~inflight.some
    /\ HookAt(pc, i).some
    /\ HookAt(pc, i).type_field # "js"

\* C5: the step taken at a hook whose kind is not "js" starts no Script
\* Runner invocation and leaves body, head and document as they were.
NonJsHookChangesNothing ==
    [][AtNonJsHook =>
         /\ contents' = contents /\ head' = head /\ k' = k
         /\ ~inflight'.some
         /\ Len(trace') > Len(trace) => trace'[Len(trace')].op # "run"]_vars

NonJsHookChangesNothingWitness ==
    /\ pc = "done"
    /\ \E n \in 1..Len(trace) : trace[n].op = "skip" /\ trace[n].stage = "head"
    /\ \E n \in 1..Len(trace) : trace[n].op = "skip" /\ trace[n].stage = "output"

\* C6: no request fails at a hook whose kind is not "js".
UnsupportedKindIsNonFatal ==
    (Panicked /\ PanicEvent.stage \in HookStages)
      => HookAt(PanicEvent.stage, PanicEvent.idx).type_field = "js"

\* C7: a request fails only on a fatal asset error, never at a hook.
ProtocolErrorsAbsorbed ==
    Panicked => PanicEvent.stage \in {"clientjs", "template", "render"}

\* C8: a hook whose template failed to render uses the command list
\* ["returndirect", "f" + current text], and a js hook runs with it.
RenderFailureFallback ==
    \A n \in 1..Len(trace) :
        (trace[n].op \in {"run", "skip", "panic"} /\ ~trace[n].rendered) =>
          /\ trace[n].op # "panic"
          /\ trace[n].cmds = <<<<"returndirect">>, <<"f">> \o trace[n].cur>>
          /\ trace[n].op = "run" => trace[n].cmd = trace[n].cmds

\* C9: a missing client script, a missing template or an unrenderable
\* template ends the request with an error value; the call never unwinds.
AssetErrorIsRequestLevel ==
    ~(Panicked /\ PanicEvent.stage \in {"clientjs", "template", "render"})

\* C10: with no plugins and a record found, no invocation happens and the
\* page is the banner, then the document of the template rendered with the
\* request's content, the initial head plus the metadata tag, and the menus.
EmptyPluginList ==
    plugins = <<>> =>
      /\ Runs = {} /\ ~inflight.some
      /\ (pc = "done" /\ post.some) =>
           result = Banner \o Document(
               RenderOk(source,
                   [head |-> InitialHead(stylesheet, post.rec.title,
                                         currentmode.sitename)
                             \o MetaTag(pagemetainfojson),
                    content |-> content,
                    menu1 |-> <<"m1">>, menu2 |-> <<"m2">>,
                    infoshow |-> <<>>]),
               clientjs)

EmptyPluginListWitness ==
    /\ plugins = <<>>
    /\ pc = "done"
    /\ post.some
    /\ content = <<"say", Q, "hi", Q>>

\* C11: a head hook whose command list does not parse uses the list
\* ["returndirect", escape_json(head)], the call does not fail there, and a
\* js hook runs with exactly that list.
HeadParseFallback ==
    /\ ~(Panicked /\ PanicEvent.stage = "head")
    /\ \A n \in HookEvents("head") :
          ~trace[n].parsed =>
            /\ trace[n].cmds = <<<<"returndirect">>, escape_json(trace[n].cur)>>
            /\ trace[n].op = "run" =>
                  /\ trace[n].cmd = trace[n].cmds
                  /\ Len(trace[n].cmd) = 2

\* a js head hook whose template rendered, but not to JSON, has run and
\* returned on a head that escaping changes
HeadParseFallbackWitness ==
    \E n \in HookEvents("head") :
        /\ trace[n].op = "run" /\ trace[n].rendered /\ ~trace[n].parsed
        /\ escape_json(trace[n].cur) # trace[n].cur
        /\ \E r \in Rets("head") : r > n

\* the place of a stage in the order the code runs them
StageRank(stage) ==
    CASE stage = "body" -> 1
      [] stage = "lookup" -> 2
      [] stage = "mode" -> 3
      [] stage = "stylesheet" -> 4
      [] stage = "clientjs" -> 5
      [] stage = "template" -> 6
      [] stage = "head" -> 7
      [] stage = "render" -> 8
      [] OTHER -> 9

\* the place of a stage in the order that has the template file read after
\* the head hooks
StageRankTemplateLate(stage) ==
    CASE stage = "head" -> 6
      [] stage = "template" -> 7
      [] OTHER -> StageRank(stage)

PcRank ==
    CASE pc = "start" -> 0
      [] pc = "body" -> 1
      [] pc = "headinit" -> 7
      [] pc \in {"done", "panic"} -> 10
      [] OTHER -> StageRank(pc)

\* C12 as stated: the steps come in the order body hooks, lookup, mode,
\* stylesheet, client script, head hooks, template read and render, output
\* hooks; no head hook comes after the template file was read.
StepOrderTemplateLate ==
    \A a, b \in 1..Len(trace) :
        a < b => StageRankTemplateLate(trace[a].stage)
                   <= StageRankTemplateLate(trace[b].stage)

\* C12, amended: the steps come in the order body hooks, lookup, mode,
\* stylesheet read, client script read, template file read, head
\* construction, head hooks, metadata injection, render and assembly, output
\* hooks, banner; the template file is read before the head is built.
StepOrder ==
    /\ \A a, b \in 1..Len(trace) :
          a < b => StageRank(trace[a].stage) <= StageRank(trace[b].stage)
    /\ trace # <<>> => StageRank(trace[Len(trace)].stage) <= PcRank
    /\ pc \in {"headinit", "head", "render", "output"} =>
          \E n \in 1..Len(trace) :
              /\ trace[n].op = "read_file" /\ trace[n].stage = "template"
              /\ \A m \in HookEvents("head") : n < m
    /\ (pc = "done" /\ post.some) =>
          /\ result = Banner \o k
          /\ \A st \in {"lookup", "mode", "stylesheet", "clientjs", "template"} :
                \E n \in 1..Len(trace) : trace[n].stage = st

\* a page was returned by a call that ran body, head and output hooks
StepOrderWitness ==
    /\ pc = "done" /\ post.some
    /\ HookEvents("body") # {}
    /\ HookEvents("head") # {}
    /\ HookEvents("output") # {}

\* s holds the text t as a contiguous part
Contains(s, t) ==
    \E a \in 0..(Len(s) - Len(t)) : SubSeq(s, a + 1, a + Len(t)) = t

\* the head as the head hooks left it: the last returned string, or the
\* head as built when no head hook was invoked
HeadAfterHooks ==
    IF Rets("head") = {}
    THEN InitialHead(stylesheet, post.rec.title, currentmode.sitename)
    ELSE trace[Max(Rets("head"))].out

\* C14: no head hook is given a head that holds the metadata script tag,
\* and the head the template is rendered with is the head the last head
\* hook left followed by that tag.
MetadataTagAfterHeadHooks ==
    /\ \A n \in HookEvents("head") :
          ~Contains(trace[n].cur, MetaTag(pagemetainfojson))
    /\ (pc = "head" /\ ~inflight.some) => head = HeadAfterHooks
    /\ (pc \in {"render", "output", "done"} /\ post.some) =>
          head = HeadAfterHooks \o MetaTag(pagemetainfojson)
    /\ (pc = "output" /\ Rets("output") = {}) =>
          k = Document(
                RenderOk(source,
                    [head |-> HeadAfterHooks \o MetaTag(pagemetainfojson),
                     content |-> contents,
                     menu1 |-> <<"m1">>, menu2 |-> <<"m2">>,
                     infoshow |-> <<>>]),
                clientjs)

\* a page was returned after a head hook replaced the head
MetadataTagAfterHeadHooksWitness ==
    /\ pc = "done" /\ post.some
    /\ Rets("head") # {}
    /\ Contains(result, <<"out">> \o MetaTag(pagemetainfojson))

\* the document as the output hooks left it: the last returned string, or
\* the assembled document when no output hook was invoked
DocumentAfterHooks ==
    IF Rets("output") = {}
    THEN Document(
           RenderOk(source,
               [head |-> head, content |-> contents,
                menu1 |-> <<"m1">>, menu2 |-> <<"m2">>, infoshow |-> <<>>]),
           clientjs)
    ELSE trace[Max(Rets("output"))].out

BannerText ==
    <<"<", "!--", NL, NL, "Generated and hosted through Cynthia v",
      "CARGO_PKG_VERSION", ", by Strawmelonjuice.", NL, "Also see:", TAB, "<",
      "https://github.com/strawmelonjuice/CynthiaCMS-JS/blob/main/README.MD",
      ">", NL, NL, "--", ">", NL, NL, NL, NL, CR>>

\* C15: no output hook is given a document that holds the banner, and the
\* result of a call that found the record is the banner followed by the
\* document the last output hook left.
BannerAfterOutputHooks ==
    /\ \A n \in HookEvents("output") : ~Contains(trace[n].cur, BannerText)
    /\ (pc = "done" /\ post.some) => result = BannerText \o DocumentAfterHooks

\* a page was returned after an output hook replaced the whole document
BannerAfterOutputHooksWitness ==
    /\ pc = "done" /\ post.some
    /\ Rets("output") # {}
    /\ result = BannerText \o <<"out">>

Terminal == pc \in {"done", "panic"}

\* C16: when every invocation returns the call reaches a returned string or
\* a failure; no step goes back to an earlier stage or plugin; while an
\* invocation has not returned, the only step there is is its return.
RunTerminates ==
    /\ <>Terminal
    /\ [][/\ PcRank' >= PcRank
          /\ pc' = pc => i' >= i
          /\ (pc' = pc /\ i' = i) => (~inflight.some /\ inflight'.some)
          /\ inflight.some =>
                /\ ~inflight'.some
                /\ trace'[Len(trace')].op = "ret"
                /\ trace'[Len(trace')].idx = i]_vars

\* the call returned a page after an invocation in each stage
RunTerminatesWitness ==
    /\ pc = "done"
    /\ Rets("body") # {} /\ Rets("head") # {} /\ Rets("output") # {}

\* the events of the record scan, the Mode Resolver call and the stylesheet read
LookupEvents == {n \in 1..Len(trace) : trace[n].op = "read_published_jsonc"}
ModeEvents == {n \in 1..Len(trace) : trace[n].op = "load_mode"}
StylesheetEvents ==
    {n \in 1..Len(trace) : trace[n].op = "read_file" /\ trace[n].stage = "stylesheet"}
\* the record the scan stopped at, as the record store holds it
StoredRecord == trace[CHOOSE n \in LookupEvents : TRUE].store[1]
\* the found record has no mode, or the stylesheet file could not be read
ModeAbsent == ModeEvents # {} /\ ~StoredRecord.mode.some
StylesheetAbsent == \E n \in StylesheetEvents : ~trace[n].ok

TemplateEvents ==
    {n \in 1..Len(trace) : trace[n].op = "read_file" /\ trace[n].stage = "template"}
\* the template file name the resolved mode gives for a kind
TemplateOf(kind) ==
    <<"./cynthiaFiles/templates/",
      IF kind = "post" THEN currentmode.handlebar.post
      ELSE currentmode.handlebar.page,
      ".handlebars">>

\* C18: the template file read is the post template of the resolved mode
\* exactly when the record's kind is "post" and its page template for every
\* other kind; a returned page has read exactly one template file.
TemplateSelection ==
    /\ \A n \in TemplateEvents :
          /\ trace[n].path = TemplateOf(StoredRecord.kind)
          /\ handlebarfile = trace[n].path
          /\ (trace[n].path[2] = currentmode.handlebar.post
              /\ currentmode.handlebar.post # currentmode.handlebar.page)
                 => StoredRecord.kind = "post"
    /\ Cardinality(TemplateEvents) <= 1
    /\ (pc = "done" /\ post.some) => Cardinality(TemplateEvents) = 1
    /\ (pc = "done" /\ ~post.some) => TemplateEvents = {}

\* a page was returned for a record whose kind is neither "post" nor "page",
\* built from the page template of its mode
TemplateSelectionWitness ==
    /\ pc = "done" /\ post.some
    /\ StoredRecord.kind = "note"
    /\ \E n \in TemplateEvents :
          /\ trace[n].path[2] = currentmode.handlebar.page
          /\ trace[n].path[2] # currentmode.handlebar.post

\* the plugins that declare a js hook for a stage
JsHooks(stage) ==
    {j \in 1..Len(plugins) :
        LET p == CASE stage = "body" -> plugins[j].modify_body_html
                   [] stage = "head" -> plugins[j].modify_head_html
                   [] OTHER -> plugins[j].modify_output_html
        IN p.some /\ p.type_field = "js"}
RunsOf(stage) == {n \in Runs : trace[n].stage = stage}

\* C19: a plugin's hook of a stage is invoked at most once, and only when it
\* is a js hook; a returned page has made one invocation for every js body,
\* head and output hook of the plugin list, and a page-not-found return one
\* for every js body hook and none for the head and output hooks.
InvocationCounts ==
    /\ \A a, b \in Runs :
          (trace[a].stage = trace[b].stage /\ trace[a].idx = trace[b].idx)
             => a = b
    /\ \A n \in Runs : trace[n].idx \in JsHooks(trace[n].stage)
    /\ Cardinality(Runs) <= 3 * Len(plugins)
    /\ (pc = "done" /\ post.some) =>
          /\ Cardinality(Runs) = Cardinality(JsHooks("body"))
                                 + Cardinality(JsHooks("head"))
                                 + Cardinality(JsHooks("output"))
          /\ \A st \in {"body", "head", "output"} :
                {trace[n].idx : n \in RunsOf(st)} = JsHooks(st)
    /\ (pc = "done" /\ ~post.some /\ LookupEvents # {}) =>
          /\ Cardinality(Runs) = Cardinality(JsHooks("body"))
          /\ Runs = RunsOf("body")
          /\ {trace[n].idx : n \in Runs} = JsHooks("body")

\* a page was returned after the five js hooks of two plugins ran, some in
\* each stage
InvocationCountsWitness ==
    /\ pc = "done" /\ post.some
    /\ Len(plugins) = 2
    /\ Cardinality(Runs) = 5
    /\ \A st \in {"body", "head", "output"} : RunsOf(st) # {}

\* page-not-found was returned after one js body hook ran, by a plugin list
\* that also declares js head and output hooks
InvocationCountsNotFoundWitness ==
    /\ pc = "done" /\ ~post.some /\ LookupEvents # {}
    /\ Cardinality(Runs) = 1
    /\ JsHooks("head") # {} /\ JsHooks("output") # {}

\* the argument of position j of the invocation trace[n], were the element
\* replaced exactly when it is the single token tok
Scoped(n, j, tok) ==
    IF trace[n].cmds[j] = <<tok>> THEN trace[n].cur ELSE trace[n].cmds[j]

\* C20: a body hook's argument vector is its decoded command list with the
\* elements equal to the body sentinel replaced by the current content and
\* every other element, the output sentinel included, unchanged; an output
\* hook's is the list with only the output sentinel replaced by the
\* document; a head hook's is the decoded list itself.
SentinelScope ==
    \A n \in Runs :
        /\ Len(trace[n].cmd) = Len(trace[n].cmds)
        /\ \A j \in 1..Len(trace[n].cmds) :
              trace[n].cmd[j] =
                 CASE trace[n].stage = "body" ->
                        Scoped(n, j, "kamkdxcvjgCVJGVvdbvcgcvgdvd")
                   [] trace[n].stage = "output" ->
                        Scoped(n, j, "kamdlnjnjnsjkanj")
                   [] OTHER -> trace[n].cmds[j]

\* a page was returned after one plugin's body, head and output hooks were
\* each given a command list that names both sentinels: the body hook got the
\* output sentinel as it is, the head hook both, the output hook the body one
SentinelScopeWitness ==
    /\ pc = "done" /\ post.some
    /\ \E b \in RunsOf("body"), h \in RunsOf("head"), o \in RunsOf("output") :
          /\ trace[b].cmds = <<<<"kamkdxcvjgCVJGVvdbvcgcvgdvd">>, <<"kamdlnjnjnsjkanj">>>>
          /\ trace[b].cmd = <<trace[b].cur, <<"kamdlnjnjnsjkanj">>>>
          /\ trace[b].cur # <<"kamkdxcvjgCVJGVvdbvcgcvgdvd">>
          /\ trace[h].cmd = trace[b].cmds
          /\ trace[o].cmds = trace[b].cmds
          /\ trace[o].cmd = <<<<"kamkdxcvjgCVJGVvdbvcgcvgdvd">>, trace[o].cur>>

\* the stored record with the mode default applied, serialized
DefaultedRecordJson ==
    to_string([StoredRecord EXCEPT
                 !.mode = [some |-> TRUE,
                           val |-> IF StoredRecord.mode.some
                                   THEN StoredRecord.mode.val ELSE "default"]])

\* C21: from the mode step on, hence at every head hook, the serialized
\* record is the stored record with the mode default applied: it carries
\* mode "default" and no null when the record has no mode; the head a page
\* is rendered with ends with the tag that embeds exactly that JSON, which
\* depends on the stored record alone and not on what the head hooks return.
EmbeddedRecordJson ==
    /\ ModeEvents # {} =>
          /\ pagemetainfojson = DefaultedRecordJson
          /\ ~StoredRecord.mode.some =>
                /\ Contains(pagemetainfojson,
                            <<Q, "mode", Q, ":", Q, "default", Q>>)
                /\ ~Contains(pagemetainfojson, <<"null">>)
    /\ \A n \in HookEvents("head") :
          /\ \E e \in ModeEvents : e < n
          /\ ~Contains(trace[n].cur, DefaultedRecordJson)
    /\ (pc \in {"render", "output", "done"} /\ post.some) =>
          head = HeadAfterHooks \o MetaTag(DefaultedRecordJson)

\* a page was returned for a record without a mode after a head hook
\* replaced the head: the returned page embeds the record with mode "default"
EmbeddedRecordJsonWitness ==
    /\ pc = "done" /\ post.some
    /\ ~StoredRecord.mode.some
    /\ Rets("head") # {}
    /\ head = trace[Max(Rets("head"))].out \o MetaTag(pagemetainfojson)
    /\ Contains(result, MetaTag(pagemetainfojson))
    /\ Contains(pagemetainfojson, <<Q, "mode", Q, ":", Q, "default", Q>>)

====
